---- MODULE Spec2Model ----
(***************************************************************************)
(* Data-parallel trainer of                                                *)
(* basic-distributed-ml-pipeline/wine-quality-prediction-master-worker.go  *)
(*                                                                         *)
(* main partitions the training set over numWorkers goroutines, every      *)
(* goroutine runs Worker.trainWorker against one shared Model, main waits  *)
(* on a sync.WaitGroup, then reports and evaluates.                        *)
(*                                                                         *)
(* Every component of the Model (Weights[j], Bias) is carried twice: as the *)
(* number of gradient applications that have written it, so that a read    *)
(* can be attributed to the model version it saw, and as its value         *)
(* (WeightsValue[j], BiasValue).  float64 values are exact rationals       *)
(* [n, d] in lowest terms; [0, 0] is NaN, the result of 0.0/0.0.  Rounding *)
(* is not modelled.  A value stored in Metrics is carried with the worker  *)
(* that stored it and with len(batchErrors), the divisor of the average.   *)
(*                                                                         *)
(* The module also holds the channel pipeline program (main and            *)
(* PipelineStage.Run of the second program): three stages, each a          *)
(* goroutine between two unbuffered channels, two connector goroutines,    *)
(* and main, which sends one data set, closes the first input and receives *)
(* once from the last output.  A data set is carried as its length and the *)
(* stages that have processed it.  The two programs share no state.        *)
(***************************************************************************)
EXTENDS Integers, Sequences, FiniteSets, TLC

\* ------------------------------------------------------------------ bounds
MaxTrain == 3
MaxWorkers == 2
MaxEpochs == 2
MaxBatch == 2
FeatureCount == 2
MaxPartTrain == 9
MaxPartWorkers == 4
\* largest epochs * (numWorkers + len(trainData)) of a run whose goroutines are
\* interleaved: the number of epoch and data-point passes of all goroutines
MaxWork == 10
\* the runs whose values are followed: learning rates 1/1 .. 1/MaxLrDen and at
\* most MaxValUpdates gradient applications
MaxLrDen == 2
MaxValUpdates == 4
\* the runs followed to their end: largest numWorkers * epochs * (numWorkers + len(trainData))
MaxFairWork == 16
\* the pipeline program: largest number of samples in the data set loaded
MaxWines == 8
\* len(stages); k of predictQuality
NumStages == 3
K == 5

VARIABLES
    trainLen,      \* len(trainData)
    numWorkers,    \* main: numWorkers
    batchSize,     \* main: batchSize
    epochs,        \* main: epochs
    learningRate,  \* main: learningRate
    data,          \* trainData: index |-> [Features, Label]
    pcMain,        \* position of main
    mainI,         \* loop variable of the loop main is in (i, or epoch)
    chunkSize,     \* main: chunkSize
    workersData,   \* main: workersData[i], as the index range <<start, end>> of trainData
    wg,            \* counter of the sync.WaitGroup
    Weights,       \* Model.Weights, component j |-> number of writes it has received
    Bias,          \* Model.Bias, number of writes it has received
    WeightsValue,  \* Model.Weights, component j |-> its value
    BiasValue,     \* Model.Bias, its value
    Updates,       \* Model.Updates
    mu,            \* Model.mu is locked
    Metrics,       \* Model.Metrics: function from the epochs stored to the value stored
    MetricsMu,     \* Model.MetricsMu is locked
    workers,       \* the Worker structs and the position of their goroutines
    report,        \* what main's report loop has read from Metrics, in order
    lastRecord,    \* history: epoch |-> the worker that took MetricsMu last to store it
    recorded,      \* history: worker |-> its stores to Metrics, each <<key, w.GradientSum>>
    \* ---- the pipeline program
    wines,         \* main: len(data), the data set loadWineData returned
    pcPipeline,    \* position of main
    pipeI,         \* loop variable of the loop main is in
    stages,        \* the goroutines of Run: stage |-> position, data or result, counts
    connectors,    \* the goroutines of the connecting loop: i |-> position, result
    closed,        \* channel |-> it has been closed
    program,       \* "running", "returned" (main has returned), or the panic that ended it
    final          \* what main received from the last output; <<>> before

vars == <<trainLen, numWorkers, batchSize, epochs, learningRate, data, pcMain, mainI,
          chunkSize, workersData, wg, Weights, Bias, WeightsValue, BiasValue, Updates,
          mu, Metrics, MetricsMu, workers, report, lastRecord, recorded,
          wines, pcPipeline, pipeI, stages, connectors, closed, program, final>>

config == <<trainLen, numWorkers, batchSize, epochs, learningRate, data>>
mainVars == <<pcMain, mainI, chunkSize, workersData, report>>
modelVars == <<Weights, Bias, WeightsValue, BiasValue, Updates, mu>>
metricsVars == <<Metrics, MetricsMu, lastRecord, recorded>>
pipeline == <<wines, pcPipeline, pipeI, stages, connectors, closed, program, final>>
trainer == <<config, mainVars, wg, modelVars, metricsVars, workers>>

WorkerIds == 0 .. (numWorkers - 1)
Features == 0 .. (FeatureCount - 1)

Min(a, b) == IF a < b THEN a ELSE b

\* ---------------------------------------------------------------- float64
Abs(a) == IF a < 0 THEN 0 - a ELSE a

\* The operations are functions, not operators, so that their arguments are
\* values when the body is evaluated.
Gcd[a \in Nat, b \in Nat] == IF b = 0 THEN a ELSE Gcd[b, a % b]

Float == [n : Int, d : Nat]

\* the value n/d (d > 0) in lowest terms
Rat[n \in Int, d \in Nat] == [n |-> n \div Gcd[Abs(n), d], d |-> d \div Gcd[Abs(n), d]]

Zero == [n |-> 0, d |-> 1]
One == [n |-> 1, d |-> 1]
NaN == [n |-> 0, d |-> 0]
IsNaN(a) == a.d = 0

\* float64(k) of an int k
FromInt(k) == [n |-> k, d |-> 1]

RAdd[a \in Float, b \in Float] ==
    IF IsNaN(a) \/ IsNaN(b) THEN NaN
    ELSE LET g == Gcd[a.d, b.d]
         IN Rat[a.n * (b.d \div g) + b.n * (a.d \div g), (a.d \div g) * b.d]

RNeg[a \in Float] == [a EXCEPT !.n = 0 - a.n]

RSub[a \in Float, b \in Float] == RAdd[a, RNeg[b]]

RMul[a \in Float, b \in Float] ==
    IF IsNaN(a) \/ IsNaN(b) THEN NaN ELSE Rat[a.n * b.n, a.d * b.d]

\* a / float64(k) for an int k >= 0; 0.0/0.0 is NaN (a non-zero a is never
\* divided by zero here)
RDivInt[a \in Float, k \in Nat] ==
    IF IsNaN(a) \/ k = 0 THEN NaN ELSE Rat[a.n, a.d * k]

\* the sum of a sequence of values, added from the first on
RSum[q \in Seq(Float)] ==
    IF q = <<>> THEN Zero ELSE RAdd[RSum[SubSeq(q, 1, Len(q) - 1)], q[Len(q)]]

\* len of a slice given as an index range
SliceLen(s) == s[2] - s[1]

\* m[k] = v of a Go map: the key is added or its value replaced
Put(m, k, v) == [x \in (DOMAIN m) \cup {k} |-> IF x = k THEN v ELSE m[x]]

\* A Worker that main has not constructed yet (workers[i] is nil).
\* Beside the fields of the struct: the local variables of trainWorker and of
\* predict.  batchErrors is len(batchErrors) and errs its elements; pre is the
\* Model as it was when the worker took mu (history).
NilWorker ==
    [pc |-> "nil", Data |-> <<0, 0>>, epoch |-> 0, i |-> 0, end |-> 0, dp |-> 0,
     j |-> 0, snap |-> <<>>, batchErrors |-> 0, GradientSum |-> 0,
     sum |-> Zero, weightGradients |-> [j \in Features |-> Zero], biasGradient |-> Zero,
     batchError |-> Zero, errs |-> <<>>, averageError |-> Zero,
     pre |-> [w |-> [j \in Features |-> Zero], b |-> Zero, u |-> 0]]

\* ------------------------------------------------------------------- Init
\* State of main at line 299: data loaded and split, Model constructed with
\* zero weights, zero bias and an empty Metrics map, configuration set.
InitWith(n, w, b, e) ==
    /\ trainLen = n
    /\ numWorkers = w
    /\ batchSize = b
    /\ epochs = e
    /\ pcMain = "chunk"
    /\ mainI = 0
    /\ chunkSize = 0
    /\ workersData = [i \in 0 .. (w - 1) |-> <<0, 0>>]
    /\ wg = 0
    /\ Weights = [j \in Features |-> 0]
    /\ Bias = 0
    /\ WeightsValue = [j \in Features |-> Zero]
    /\ BiasValue = Zero
    /\ Updates = 0
    /\ mu = FALSE
    /\ Metrics = <<>>
    /\ MetricsMu = FALSE
    /\ workers = [i \in 0 .. (w - 1) |-> NilWorker]
    /\ report = <<>>
    /\ lastRecord = <<>>
    /\ recorded = [i \in 0 .. (w - 1) |-> <<>>]

\* ------------------------------------------------- the pipeline program
StageIds == 0 .. (NumStages - 1)
ConnectorIds == 0 .. (NumStages - 2)

\* the channels: stages[s].input and stages[s].output
Input(s) == <<"input", s>>
Output(s) == <<"output", s>>
Channels == {Input(s) : s \in StageIds} \cup {Output(s) : s \in StageIds}

\* a []Wine: its length and the stages that have processed it, in order
Item(n, by) == [len |-> n, by |-> by]
NoItem == Item(0, <<>>)

NilStage == [pc |-> "nil", data |-> NoItem, received |-> 0, emitted |-> 0]
NilConnector == [pc |-> "nil", result |-> NoItem, forwarded |-> 0]

\* main of the pipeline program after loadWineData returned n samples and
\* the stages were made: no goroutine yet, every channel open
PipelineAt(n) ==
    /\ wines = n
    /\ pcPipeline = "run"
    /\ pipeI = 0
    /\ stages = [s \in StageIds |-> NilStage]
    /\ connectors = [c \in ConnectorIds |-> NilConnector]
    /\ closed = [ch \in Channels |-> FALSE]
    /\ program = "running"
    /\ final = <<>>

\* a data point all of whose features and whose label are 0
ZeroPoint == [Features |-> [j \in Features |-> 0], Label |-> 0]

\* The runs whose goroutines are interleaved: every configuration, on a
\* training set of zero points.
Init ==
    \E n \in 0 .. MaxTrain, w \in 1 .. MaxWorkers, b \in 1 .. MaxBatch, e \in 1 .. MaxEpochs :
        /\ e * (w + n) <= MaxWork
        /\ InitWith(n, w, b, e)
        /\ learningRate = One
        /\ PipelineAt(0)
        /\ data = [k \in 0 .. (n - 1) |-> ZeroPoint]

\* ------------------------------------------------------------ main, part 1
\* variant: the chunk size rounded up
ChunkSizeCeil(n, w) == (n + w - 1) \div w

\* chunkSize := len(trainData) / numWorkers
ChunkSizeOf(n, w) == n \div w

ComputeChunk ==
    /\ pcMain = "chunk"
    /\ chunkSize' = ChunkSizeOf(trainLen, numWorkers)
    /\ pcMain' = "partition"
    /\ mainI' = 0
    /\ UNCHANGED <<pipeline, config, workersData, wg, modelVars, metricsVars, workers, report>>

\* variant: ranges counted from 1
PartitionStartOneBased(i) == i * chunkSize + 1

\* start := i * chunkSize
PartitionStart(i) == i * chunkSize

\* variant: the last range is not extended to the end of the training set
PartitionEndNoRemainder(i) == i * chunkSize + chunkSize

\* end := start + chunkSize; if i == numWorkers-1 { end = len(trainData) }
PartitionEnd(i) ==
    IF i = numWorkers - 1 THEN trainLen ELSE PartitionStart(i) + chunkSize

\* One iteration of the partitioning loop, or its exit.
PartitionStep ==
    /\ pcMain = "partition"
    /\ IF mainI < numWorkers
       THEN /\ workersData' = [workersData EXCEPT ![mainI] = <<PartitionStart(mainI), PartitionEnd(mainI)>>]
            /\ mainI' = mainI + 1
            /\ pcMain' = pcMain
       ELSE /\ pcMain' = "spawn"
            /\ mainI' = 0
            /\ UNCHANGED workersData
    /\ UNCHANGED <<pipeline, config, chunkSize, wg, modelVars, metricsVars, workers, report>>

\* ------------------------------------------------------------ main, part 2
\* workers[i] = &Worker{...}; wg.Add(1); go workers[i].trainWorker(...)
\* One iteration of the start loop, or its exit to wg.Wait().
SpawnStep ==
    /\ pcMain = "spawn"
    /\ IF mainI < numWorkers
       THEN /\ workers' = [workers EXCEPT ![mainI] =
                              [NilWorker EXCEPT !.pc = "start", !.Data = workersData[mainI]]]
            /\ wg' = wg + 1
            /\ mainI' = mainI + 1
            /\ pcMain' = pcMain
       ELSE /\ pcMain' = "wait"
            /\ mainI' = 0
            /\ UNCHANGED <<workers, wg>>
    /\ UNCHANGED <<pipeline, config, chunkSize, workersData, modelVars, metricsVars, report>>

\* variant: main does not wait
WaitReturnsAlways == TRUE

\* wg.Wait() returns when the counter is zero.
WaitReturns == wg = 0

Wait ==
    /\ pcMain = "wait"
    /\ WaitReturns
    /\ pcMain' = "report"
    /\ mainI' = 0
    /\ UNCHANGED <<pipeline, config, chunkSize, workersData, wg, modelVars, metricsVars, workers, report>>

\* model.Metrics[epoch] read by main: the value stored, or the zero value of
\* the map's element type when the key is absent.
MetricsRead(epoch) ==
    IF epoch \in DOMAIN Metrics THEN Metrics[epoch] ELSE [by |-> -1, n |-> -1, value |-> Zero]

\* for epoch := 0; epoch < epochs; epoch++ { logger.Info(..., model.Metrics[epoch]) }
ReportStep ==
    /\ pcMain = "report"
    /\ IF mainI < epochs
       THEN /\ report' = Append(report, MetricsRead(mainI))
            /\ mainI' = mainI + 1
            /\ pcMain' = pcMain
       ELSE /\ pcMain' = "evaluate"
            /\ mainI' = 0
            /\ UNCHANGED report
    /\ UNCHANGED <<pipeline, config, chunkSize, workersData, wg, modelVars, metricsVars, workers>>

\* mse := evaluate(model, testData), then the summary that reads model.Updates
Evaluate ==
    /\ pcMain = "evaluate"
    /\ pcMain' = "done"
    /\ UNCHANGED <<pipeline, config, mainI, chunkSize, workersData, wg, modelVars, metricsVars, workers, report>>

\* ------------------------------------------------------------------ Worker
Set(w, r) == workers' = [workers EXCEPT ![w] = r]
At(w, p) == w \in WorkerIds /\ workers[w].pc = p

\* variant: end is not clamped to the length of the partition
BatchEndNoClamp(i, len) == i + batchSize

\* end := i + w.BatchSize; if end > len(w.Data) { end = len(w.Data) }
BatchEnd(i, len) == Min(i + batchSize, len)

\* variant: the divisor is the configured batch size
BatchLenConfigured(r) == batchSize

\* len(batch), batch := w.Data[i:end]
BatchLen(r) == r.end - r.i

\* variant: the gradients of the batch before are kept
GradientsKept(r) == r

\* weightGradients := make([]float64, ...); biasGradient := 0.0; batchError := 0.0
GradientsMade(r) ==
    [r EXCEPT !.weightGradients = [j \in Features |-> Zero], !.biasGradient = Zero,
              !.batchError = Zero]

\* averageError := 0.0; for _, err := range batchErrors { averageError += err };
\* averageError /= float64(len(batchErrors))
AverageError(r) == RDivInt[RSum[r.errs], r.batchErrors]

\* variant: the batch loop stops one index early (i < len(w.Data)-1)
AtBatchLoopOffByOne(r) ==
    LET len == SliceLen(r.Data)
        end == BatchEnd(r.i, len)
    IN IF r.i < len - 1
       THEN GradientsMade([r EXCEPT !.end = end, !.dp = r.i,
                                    !.pc = IF r.i < end THEN "readBias" ELSE "lock"])
       ELSE [r EXCEPT !.averageError = AverageError(r), !.pc = "metricsLock"]

\* Head of the batch loop, for i := ...; i < len(w.Data); ... : an iteration
\* computes end and batch and starts with predict for the first data point of
\* the batch; after the last batch batchErrors is averaged (local) and
\* MetricsMu.Lock() is next.  The result is the worker at its next access to
\* shared state.
AtBatchLoop(r) ==
    LET len == SliceLen(r.Data)
        end == BatchEnd(r.i, len)
    IN IF r.i < len
       THEN GradientsMade([r EXCEPT !.end = end, !.dp = r.i,
                                    !.pc = IF r.i < end THEN "readBias" ELSE "lock"])
       ELSE [r EXCEPT !.averageError = AverageError(r), !.pc = "metricsLock"]

\* Head of the epoch loop, for epoch := ...; epoch < epochs; ... : an iteration
\* makes an empty batchErrors and enters the batch loop; when the loop is over
\* the function returns and the deferred wg.Done() is next.
AtEpochLoop(r) ==
    IF r.epoch < epochs
    THEN AtBatchLoop([r EXCEPT !.i = 0, !.batchErrors = 0, !.errs = <<>>])
    ELSE [r EXCEPT !.pc = "exit"]

\* The goroutine starts: logger.Info("Worker %d starting ..."), epoch := 0
Start(w) ==
    /\ At(w, "start")
    /\ Set(w, AtEpochLoop(workers[w]))
    /\ UNCHANGED <<pipeline, config, mainVars, wg, modelVars, metricsVars>>

\* dp of `for _, dp := range batch`: the data point at index dp of w.Data
DataPoint(r) == data[r.Data[1] + r.dp]

\* predict: sum := m.Bias   (no lock is held)
ReadBias(w) ==
    /\ At(w, "readBias")
    /\ Set(w, [workers[w] EXCEPT !.snap = <<Bias>>, !.sum = BiasValue, !.j = 0,
                  !.pc = IF FeatureCount > 0 THEN "readWeight" ELSE "predicted"])
    /\ UNCHANGED <<pipeline, config, mainVars, wg, modelVars, metricsVars>>

\* predict: for i, weight := range m.Weights { sum += weight * features[i] }
\* one iteration; after the last one predict returns and the worker adds the
\* error to its local gradients, then takes the next data point of the batch
\* or, after the last one, appends to batchErrors and goes to mu.Lock().
\*   error := prediction - dp.Label; batchError += error * error
\*   weightGradients[j] += error * dp.Features[j]; biasGradient += error
\*   batchErrors = append(batchErrors, batchError/float64(len(batch)))
AfterPredict(r) ==
    LET p == DataPoint(r)
        error == RSub[r.sum, FromInt(p.Label)]
        q == [r EXCEPT !.batchError = RAdd[@, RMul[error, error]],
                       !.weightGradients =
                           [j \in Features |-> RAdd[@[j], RMul[error, FromInt(p.Features[j])]]],
                       !.biasGradient = RAdd[@, error]]
    IN IF r.dp + 1 < r.end
       THEN [q EXCEPT !.dp = r.dp + 1, !.pc = "readBias"]
       ELSE [q EXCEPT !.dp = r.dp + 1, !.batchErrors = r.batchErrors + 1,
                      !.errs = Append(@, RDivInt[q.batchError, BatchLen(r)]), !.pc = "lock"]

ReadWeight(w) ==
    /\ At(w, "readWeight")
    /\ LET j == workers[w].j
           r == [workers[w] EXCEPT !.snap = Append(@, Weights[j]),
                                   !.sum = RAdd[@, RMul[WeightsValue[j],
                                                        FromInt(DataPoint(workers[w]).Features[j])]],
                                   !.j = j + 1]
       IN IF r.j < FeatureCount
          THEN Set(w, r)
          ELSE Set(w, AfterPredict(r))
    /\ UNCHANGED <<pipeline, config, mainVars, wg, modelVars, metricsVars>>

\* variant: the lock is taken whether or not it is held
MuLockNoWait(w) ==
    /\ At(w, "lock")
    /\ mu' = TRUE
    /\ Set(w, [workers[w] EXCEPT !.pc = "writeWeight", !.j = 0, !.snap = <<>>,
                  !.pre = [w |-> WeightsValue, b |-> BiasValue, u |-> Updates]])
    /\ UNCHANGED <<pipeline, config, mainVars, wg, Weights, Bias, WeightsValue, BiasValue, Updates, metricsVars>>

\* w.Model.mu.Lock()
MuLock(w) ==
    /\ At(w, "lock")
    /\ ~mu
    /\ mu' = TRUE
    /\ Set(w, [workers[w] EXCEPT !.pc = "writeWeight", !.j = 0, !.snap = <<>>,
                  !.pre = [w |-> WeightsValue, b |-> BiasValue, u |-> Updates]])
    /\ UNCHANGED <<pipeline, config, mainVars, wg, Weights, Bias, WeightsValue, BiasValue, Updates, metricsVars>>

\* variant: the new weight is appended instead of stored at index j
WriteWeightAppend(w) ==
    /\ At(w, "writeWeight")
    /\ Weights' = [k \in 0 .. Cardinality(DOMAIN Weights) |->
                      IF k \in DOMAIN Weights THEN Weights[k] ELSE 1]
    /\ WeightsValue' = [k \in 0 .. Cardinality(DOMAIN WeightsValue) |->
                           IF k \in DOMAIN WeightsValue THEN WeightsValue[k] ELSE Zero]
    /\ Set(w, [workers[w] EXCEPT !.j = workers[w].j + 1,
                  !.pc = IF workers[w].j + 1 < FeatureCount THEN "writeWeight" ELSE "writeBias"])
    /\ UNCHANGED <<pipeline, config, mainVars, wg, Bias, BiasValue, Updates, mu, metricsVars>>

\* for j := range w.Model.Weights {
\*     w.Model.Weights[j] -= learningRate * weightGradients[j] / float64(len(batch)) }
\* one iteration
WriteWeight(w) ==
    /\ At(w, "writeWeight")
    /\ Weights' = [Weights EXCEPT ![workers[w].j] = @ + 1]
    /\ WeightsValue' = [WeightsValue EXCEPT ![workers[w].j] =
           RSub[@, RDivInt[RMul[learningRate, workers[w].weightGradients[workers[w].j]],
                           BatchLen(workers[w])]]]
    /\ Set(w, [workers[w] EXCEPT !.j = workers[w].j + 1,
                  !.pc = IF workers[w].j + 1 < FeatureCount THEN "writeWeight" ELSE "writeBias"])
    /\ UNCHANGED <<pipeline, config, mainVars, wg, Bias, BiasValue, Updates, mu, metricsVars>>

\* w.Model.Bias -= learningRate * biasGradient / float64(len(batch))
WriteBias(w) ==
    /\ At(w, "writeBias")
    /\ Bias' = Bias + 1
    /\ BiasValue' = RSub[BiasValue, RDivInt[RMul[learningRate, workers[w].biasGradient],
                                            BatchLen(workers[w])]]
    /\ Set(w, [workers[w] EXCEPT !.pc = "incUpdates"])
    /\ UNCHANGED <<pipeline, config, mainVars, wg, Weights, WeightsValue, Updates, mu, metricsVars>>

\* variant: the counter is advanced by the number of samples of the batch
IncUpdatesBySamples(w) ==
    /\ At(w, "incUpdates")
    /\ Updates' = Updates + (workers[w].end - workers[w].i)
    /\ Set(w, [workers[w] EXCEPT !.pc = "unlock"])
    /\ UNCHANGED <<pipeline, config, mainVars, wg, Weights, Bias, WeightsValue, BiasValue, mu, metricsVars>>

\* w.Model.Updates++
IncUpdates(w) ==
    /\ At(w, "incUpdates")
    /\ Updates' = Updates + 1
    /\ Set(w, [workers[w] EXCEPT !.pc = "unlock"])
    /\ UNCHANGED <<pipeline, config, mainVars, wg, Weights, Bias, WeightsValue, BiasValue, mu, metricsVars>>

\* variant: the loop steps one past the batch
NextBatchSkip(i) == i + batchSize + 1

\* i += w.BatchSize
NextBatch(i) == i + batchSize

\* variant: the lock is not released
MuUnlockKeepsLock(w) ==
    /\ At(w, "unlock")
    /\ mu' = mu
    /\ Set(w, AtBatchLoop([workers[w] EXCEPT !.GradientSum = @ + 1, !.pre = NilWorker.pre,
                              !.i = NextBatch(workers[w].i)]))
    /\ UNCHANGED <<pipeline, config, mainVars, wg, Weights, Bias, WeightsValue, BiasValue, Updates, metricsVars>>

\* w.Model.mu.Unlock(); w.GradientSum++; the loop's i += w.BatchSize and its head
MuUnlock(w) ==
    /\ At(w, "unlock")
    /\ mu' = FALSE
    /\ Set(w, AtBatchLoop([workers[w] EXCEPT !.GradientSum = @ + 1, !.pre = NilWorker.pre,
                              !.i = NextBatch(workers[w].i)]))
    /\ UNCHANGED <<pipeline, config, mainVars, wg, Weights, Bias, WeightsValue, BiasValue, Updates, metricsVars>>

\* variant: the Metrics are guarded by the lock of the Model as well
MetricsLockShared(w) ==
    /\ At(w, "metricsLock")
    /\ ~MetricsMu /\ ~mu
    /\ MetricsMu' = TRUE
    /\ lastRecord' = Put(lastRecord, workers[w].epoch, w)
    /\ Set(w, [workers[w] EXCEPT !.pc = "metricsWrite"])
    /\ UNCHANGED <<pipeline, config, mainVars, wg, modelVars, Metrics, recorded>>

\* w.Model.MetricsMu.Lock()
MetricsLock(w) ==
    /\ At(w, "metricsLock")
    /\ ~MetricsMu
    /\ MetricsMu' = TRUE
    /\ lastRecord' = Put(lastRecord, workers[w].epoch, w)
    /\ Set(w, [workers[w] EXCEPT !.pc = "metricsWrite"])
    /\ UNCHANGED <<pipeline, config, mainVars, wg, modelVars, Metrics, recorded>>

\* variant: epochs stored under their 1-based number
MetricsKeyOneBased(epoch) == epoch + 1

\* the key under which an epoch's average is stored
MetricsKey(epoch) == epoch

\* variant: a value already stored for the epoch is kept
MetricsWriteIfAbsent(w) ==
    /\ At(w, "metricsWrite")
    /\ LET k == MetricsKey(workers[w].epoch)
           v == [by |-> w, n |-> workers[w].batchErrors, value |-> workers[w].averageError]
       IN /\ Metrics' = IF k \in DOMAIN Metrics THEN Metrics ELSE Put(Metrics, k, v)
          /\ recorded' = [recorded EXCEPT ![w] = Append(@, <<k, workers[w].GradientSum>>)]
    /\ Set(w, [workers[w] EXCEPT !.pc = "metricsUnlock"])
    /\ UNCHANGED <<pipeline, config, mainVars, wg, modelVars, MetricsMu, lastRecord>>

\* w.Model.Metrics[epoch] = averageError
MetricsWrite(w) ==
    /\ At(w, "metricsWrite")
    /\ LET k == MetricsKey(workers[w].epoch)
           v == [by |-> w, n |-> workers[w].batchErrors, value |-> workers[w].averageError]
       IN /\ Metrics' = Put(Metrics, k, v)
          /\ recorded' = [recorded EXCEPT ![w] = Append(@, <<k, workers[w].GradientSum>>)]
    /\ Set(w, [workers[w] EXCEPT !.pc = "metricsUnlock"])
    /\ UNCHANGED <<pipeline, config, mainVars, wg, modelVars, MetricsMu, lastRecord>>

\* w.Model.MetricsMu.Unlock(); the logger.Info of the epoch, the loop's epoch++ and its head
MetricsUnlock(w) ==
    /\ At(w, "metricsUnlock")
    /\ MetricsMu' = FALSE
    /\ Set(w, AtEpochLoop([workers[w] EXCEPT !.epoch = @ + 1]))
    /\ UNCHANGED <<pipeline, config, mainVars, wg, modelVars, Metrics, lastRecord, recorded>>

\* defer wg.Done()
WgDone(w) ==
    /\ At(w, "exit")
    /\ wg' = wg - 1
    /\ Set(w, [workers[w] EXCEPT !.pc = "done"])
    /\ UNCHANGED <<pipeline, config, mainVars, modelVars, metricsVars>>

\* ------------------------------------------------------------ specification
Next ==
    \/ ComputeChunk
    \/ PartitionStep
    \/ SpawnStep
    \/ Wait
    \/ ReportStep
    \/ Evaluate
    \/ \E w \in WorkerIds : Start(w)
    \/ \E w \in WorkerIds : ReadBias(w)
    \/ \E w \in WorkerIds : ReadWeight(w)
    \/ \E w \in WorkerIds : MuLock(w)
    \/ \E w \in WorkerIds : WriteWeight(w)
    \/ \E w \in WorkerIds : WriteBias(w)
    \/ \E w \in WorkerIds : IncUpdates(w)
    \/ \E w \in WorkerIds : MuUnlock(w)
    \/ \E w \in WorkerIds : MetricsLock(w)
    \/ \E w \in WorkerIds : MetricsWrite(w)
    \/ \E w \in WorkerIds : MetricsUnlock(w)
    \/ \E w \in WorkerIds : WgDone(w)

Spec == Init /\ [][Next]_vars

\* The partitioning alone, over larger training sets and worker counts.
InitPartition ==
    \E n \in 0 .. MaxPartTrain, w \in 1 .. MaxPartWorkers :
        /\ InitWith(n, w, 1, 1)
        /\ learningRate = One
        /\ PipelineAt(0)
        /\ data = [k \in 0 .. (n - 1) |-> ZeroPoint]

NextPartition ==
    \/ ComputeChunk
    \/ PartitionStep

SpecPartition == InitPartition /\ [][NextPartition]_vars

\* The steps of main, and of the goroutine of worker w.
MainStep ==
    \/ ComputeChunk
    \/ PartitionStep
    \/ SpawnStep
    \/ Wait
    \/ ReportStep
    \/ Evaluate

WorkerStep(w) ==
    \/ Start(w)
    \/ ReadBias(w)
    \/ ReadWeight(w)
    \/ MuLock(w)
    \/ WriteWeight(w)
    \/ WriteBias(w)
    \/ IncUpdates(w)
    \/ MuUnlock(w)
    \/ MetricsLock(w)
    \/ MetricsWrite(w)
    \/ MetricsUnlock(w)
    \/ WgDone(w)

\* The points a training set is drawn from: feature vectors (1, 0, ..) and
\* (0, 1, ..), labels 0 and 1.
DataPoints ==
    {[Features |-> [j \in Features |-> IF j = 0 THEN a ELSE 1 - a], Label |-> y] :
        a \in {0, 1}, y \in {0, 1}}

\* The runs of one worker whose values are followed: every training set over
\* DataPoints, every learning rate 1/l, and the configurations that make at
\* most MaxValUpdates gradient applications (epochs times batches).
InitValues ==
    \E n \in 0 .. MaxTrain, b \in 1 .. MaxBatch, e \in 1 .. MaxEpochs, l \in 1 .. MaxLrDen :
        /\ e * ((n + b - 1) \div b) <= MaxValUpdates
        /\ InitWith(n, 1, b, e)
        /\ learningRate = Rat[1, l]
        /\ PipelineAt(0)
        /\ data \in [0 .. (n - 1) -> DataPoints]

SpecValues == InitValues /\ [][Next]_vars

\* The runs that are followed to their end: the configurations of Init in
\* which the workers together take at most MaxFairWork rounds.
InitFair ==
    \E n \in 0 .. MaxTrain, w \in 1 .. MaxWorkers, b \in 1 .. MaxBatch, e \in 1 .. MaxEpochs :
        /\ w * e * (w + n) <= MaxFairWork
        /\ InitWith(n, w, b, e)
        /\ learningRate = One
        /\ PipelineAt(0)
        /\ data = [k \in 0 .. (n - 1) |-> ZeroPoint]

\* The Go scheduler runs every goroutine that can take a step, and a
\* goroutine blocked in Lock() gets the mutex once it stays free: weak
\* fairness of main and of every goroutine.
FairSpec ==
    /\ InitFair
    /\ [][Next]_vars
    /\ WF_vars(MainStep)
    /\ \A w \in 0 .. (MaxWorkers - 1) : WF_vars(WorkerStep(w))

\* ------------------------------------------------------- shared vocabulary
\* main has returned from wg.Wait()
\* ------------------------------------------------- the pipeline program
LastStage == NumStages - 1

\* a panic ends the program, as does the return of main
IndexPanic == "panic: index out of range"
SendPanic == "panic: send on closed channel"
ClosePanic == "panic: close of closed channel"
Running == program = "running"

\* int(float64(len(data)) * 0.8)
TrainSize(n) == (n * 4) \div 5

\* standardize: numFeatures := len(data[0].features) needs a first sample;
\* the result has the length of data
StandardizePanics(d) == d.len = 0
Standardize(d) == Item(d.len, Append(d.by, 0))

\* splitDataset returns the shuffled copy, training and test part together
SplitDataset(d) == Item(d.len, Append(d.by, 1))

\* predictQuality: predictSingle reads neighbors[0 .. k-1] of the
\* len(trainData) neighbors for every test sample; the result is data
PredictQualityPanics(d) == d.len - TrainSize(d.len) > 0 /\ TrainSize(d.len) < K
PredictQuality(d) == Item(d.len, Append(d.by, 2))

\* s.process of stage s: there are three process functions, a stage past the
\* third one (none in main) would pass its data on
ProcessPanics(s, d) ==
    CASE s = 0 -> StandardizePanics(d)
      [] s = 2 -> PredictQualityPanics(d)
      [] OTHER -> FALSE

Process(s, d) ==
    CASE s = 0 -> Standardize(d)
      [] s = 1 -> SplitDataset(d)
      [] s = 2 -> PredictQuality(d)
      [] OTHER -> Item(d.len, Append(d.by, s))

\* for _, stage := range stages { stage.Run() }: Run starts the goroutine
\* of the stage; after the last one the connecting loop is next
RunStep ==
    /\ Running /\ pcPipeline = "run"
    /\ IF pipeI < NumStages
       THEN /\ stages' = [stages EXCEPT ![pipeI].pc = "started"]
            /\ pipeI' = pipeI + 1
            /\ pcPipeline' = pcPipeline
       ELSE /\ pcPipeline' = "connect"
            /\ pipeI' = 0
            /\ UNCHANGED stages
    /\ UNCHANGED <<trainer, wines, connectors, closed, program, final>>

\* for i := 0; i < len(stages)-1; i++ { ...; go func() { ... }() }
ConnectStep ==
    /\ Running /\ pcPipeline = "connect"
    /\ IF pipeI < NumStages - 1
       THEN /\ connectors' = [connectors EXCEPT ![pipeI].pc = "range"]
            /\ pipeI' = pipeI + 1
            /\ pcPipeline' = pcPipeline
       ELSE /\ pcPipeline' = "send"
            /\ pipeI' = 0
            /\ UNCHANGED connectors
    /\ UNCHANGED <<trainer, wines, stages, closed, program, final>>

\* stage s, waiting in `for data := range s.input`, receives d
StageReceives(s, d) ==
    /\ stages[s].pc = "range"
    /\ stages' = [stages EXCEPT ![s].pc = "process", ![s].data = d, ![s].received = @ + 1]

\* stages[0].input <- data, met by the receive of the first stage
MainSend ==
    /\ Running /\ pcPipeline = "send"
    /\ IF closed[Input(0)]
       THEN /\ program' = SendPanic
            /\ UNCHANGED <<stages, pcPipeline>>
       ELSE /\ StageReceives(0, Item(wines, <<>>))
            /\ pcPipeline' = "close"
            /\ UNCHANGED program
    /\ UNCHANGED <<trainer, wines, pipeI, connectors, closed, final>>

\* close(ch): a second close panics
Close(ch) ==
    IF closed[ch]
    THEN program' = ClosePanic /\ UNCHANGED closed
    ELSE closed' = [closed EXCEPT ![ch] = TRUE] /\ UNCHANGED program

\* close(stages[0].input)
MainClose ==
    /\ Running /\ pcPipeline = "close"
    /\ Close(Input(0))
    /\ pcPipeline' = "receive"
    /\ UNCHANGED <<trainer, wines, pipeI, stages, connectors, final>>

\* <-stages[len(stages)-1].output, met by the send of the last stage; from a
\* closed channel the zero value is received
MainReceive ==
    /\ Running /\ pcPipeline = "receive"
    /\ IF closed[Output(LastStage)]
       THEN /\ final' = <<NoItem>>
            /\ UNCHANGED stages
       ELSE /\ stages[LastStage].pc = "send"
            /\ final' = <<stages[LastStage].data>>
            /\ stages' = [stages EXCEPT ![LastStage].pc = "range", ![LastStage].emitted = @ + 1]
    /\ pcPipeline' = "return"
    /\ UNCHANGED <<trainer, wines, pipeI, connectors, closed, program>>

\* the two log lines, then main returns and the program ends
MainReturn ==
    /\ Running /\ pcPipeline = "return"
    /\ pcPipeline' = "done"
    /\ program' = "returned"
    /\ UNCHANGED <<trainer, wines, pipeI, stages, connectors, closed, final>>

\* Run's goroutine: defer close(s.output); log.Printf("... started ...")
StageStart(s) ==
    /\ Running /\ stages[s].pc = "started"
    /\ stages' = [stages EXCEPT ![s].pc = "range"]
    /\ UNCHANGED <<trainer, wines, pcPipeline, pipeI, connectors, closed, program, final>>

\* result := s.process(data)
StageProcess(s) ==
    /\ Running /\ stages[s].pc = "process"
    /\ IF ProcessPanics(s, stages[s].data)
       THEN /\ program' = IndexPanic
            /\ UNCHANGED stages
       ELSE /\ stages' = [stages EXCEPT ![s].pc = "send", ![s].data = Process(s, @)]
            /\ UNCHANGED program
    /\ UNCHANGED <<trainer, wines, pcPipeline, pipeI, connectors, closed, final>>

\* s.output <- result of a stage that has a connector, met by the receive of
\* `for result := range currentStage.output`
StageSend(s) ==
    /\ Running /\ stages[s].pc = "send"
    /\ IF closed[Output(s)]
       THEN /\ program' = SendPanic
            /\ UNCHANGED <<stages, connectors>>
       ELSE /\ connectors[s].pc = "range"
            /\ connectors' = [connectors EXCEPT ![s].pc = "send", ![s].result = stages[s].data]
            /\ stages' = [stages EXCEPT ![s].pc = "range", ![s].emitted = @ + 1]
            /\ UNCHANGED program
    /\ UNCHANGED <<trainer, wines, pcPipeline, pipeI, closed, final>>

\* range s.input ends: the input is closed (nothing is buffered)
StageInputClosed(s) ==
    /\ Running /\ stages[s].pc = "range"
    /\ closed[Input(s)]
    /\ stages' = [stages EXCEPT ![s].pc = "close"]
    /\ UNCHANGED <<trainer, wines, pcPipeline, pipeI, connectors, closed, program, final>>

\* log.Printf("... finished ..."), then the deferred close(s.output)
StageClose(s) ==
    /\ Running /\ stages[s].pc = "close"
    /\ Close(Output(s))
    /\ stages' = [stages EXCEPT ![s].pc = "done"]
    /\ UNCHANGED <<trainer, wines, pcPipeline, pipeI, connectors, final>>

\* nextStage.input <- result, met by the receive of the next stage
ConnectorSend(c) ==
    /\ Running /\ connectors[c].pc = "send"
    /\ IF closed[Input(c + 1)]
       THEN /\ program' = SendPanic
            /\ UNCHANGED <<stages, connectors>>
       ELSE /\ StageReceives(c + 1, connectors[c].result)
            /\ connectors' = [connectors EXCEPT ![c].pc = "range", ![c].forwarded = @ + 1]
            /\ UNCHANGED program
    /\ UNCHANGED <<trainer, wines, pcPipeline, pipeI, closed, final>>

\* range currentStage.output ends
ConnectorOutputClosed(c) ==
    /\ Running /\ connectors[c].pc = "range"
    /\ closed[Output(c)]
    /\ connectors' = [connectors EXCEPT ![c].pc = "close"]
    /\ UNCHANGED <<trainer, wines, pcPipeline, pipeI, stages, closed, program, final>>

\* close(nextStage.input)
ConnectorClose(c) ==
    /\ Running /\ connectors[c].pc = "close"
    /\ Close(Input(c + 1))
    /\ connectors' = [connectors EXCEPT ![c].pc = "done"]
    /\ UNCHANGED <<trainer, wines, pcPipeline, pipeI, stages, final>>

\* The data set is what loadWineData read: any number of samples.  The
\* trainer is not part of these runs.
InitPipeline ==
    /\ \E n \in 0 .. MaxWines : PipelineAt(n)
    /\ InitWith(0, 1, 1, 1)
    /\ learningRate = One
    /\ data = <<>>

PipelineMainStep ==
    \/ RunStep
    \/ ConnectStep
    \/ MainSend
    \/ MainClose
    \/ MainReceive
    \/ MainReturn

StageStep(s) ==
    \/ StageStart(s)
    \/ StageProcess(s)
    \/ StageInputClosed(s)
    \/ StageClose(s)

ConnectorStep(c) ==
    \/ StageSend(c)
    \/ ConnectorSend(c)
    \/ ConnectorOutputClosed(c)
    \/ ConnectorClose(c)

NextPipeline ==
    \/ PipelineMainStep
    \/ \E s \in StageIds : StageStep(s)
    \/ \E c \in ConnectorIds : ConnectorStep(c)

SpecPipeline == InitPipeline /\ [][NextPipeline]_vars

\* The Go scheduler runs every goroutine that can take a step; a goroutine
\* blocked on a channel runs when the other side is there: weak fairness of
\* main, of every stage and of every connector.
FairSpecPipeline ==
    /\ SpecPipeline
    /\ WF_vars(PipelineMainStep)
    /\ \A s \in StageIds : WF_vars(StageStep(s))
    /\ \A c \in ConnectorIds : WF_vars(ConnectorStep(c))

PassedWait == pcMain \in {"report", "evaluate", "done"}

\* main has left the partitioning loop
Partitioned == pcMain \notin {"chunk", "partition"}

PartSize(i) == SliceLen(workersData[i])

Ceil(a, b) == (a + b - 1) \div b

\* sum over the workers 0 .. k-1 of ceil(partitionSize / batchSize)
RECURSIVE SumBatches(_)
SumBatches(k) == IF k = 0 THEN 0 ELSE SumBatches(k - 1) + Ceil(PartSize(k - 1), batchSize)

\* the worker is inside the critical section of Model.mu
InModelSection(w) == workers[w].pc \in {"writeWeight", "writeBias", "incUpdates", "unlock"}

\* the worker is inside the critical section of Model.MetricsMu
InMetricsSection(w) == workers[w].pc \in {"metricsWrite", "metricsUnlock"}

\* the worker is processing a batch (from its first predict to mu.Unlock())
InBatch(w) ==
    workers[w].pc \in {"readBias", "readWeight", "lock", "writeWeight", "writeBias",
                       "incUpdates", "unlock"}

AllDone == \A w \in WorkerIds : workers[w].pc = "done"

\* ------------------------------------------------------------------ claims

\* C1: when wg.Wait() has returned, Model.Updates equals epochs times the sum
\* over the workers of ceil(partition size / batchSize): one counted gradient
\* application per batch processed, for every interleaving.
UpdateCount == PassedWait => Updates = epochs * SumBatches(numWorkers)

\* two workers, two epochs, partitions of 1 and 2 points with batches of 2
\* (a short batch in worker 0): 4 applications counted
UpdateCountWitness ==
    /\ PassedWait
    /\ trainLen = 3 /\ numWorkers = 2 /\ batchSize = 2 /\ epochs = 2
    /\ Updates = 4

\* C2: at most one worker at a time is inside a gradient application (from
\* mu.Lock() to mu.Unlock(), which encloses the first weight write up to the
\* increment of Updates), so the writes of two applications never interleave.
MutualExclusion == Cardinality({w \in WorkerIds : InModelSection(w)}) <= 1

\* a worker has written the weights and not yet the bias while another one
\* is waiting at mu.Lock()
MutualExclusionWitness ==
    \E a, b \in WorkerIds :
        /\ a # b
        /\ workers[a].pc = "writeBias"
        /\ workers[b].pc = "lock"

\* C3: the bias and the weights read by one call of predict all belong to
\* the same model version.
ConsistentSnapshot ==
    \A w \in WorkerIds :
        \A a, b \in DOMAIN workers[w].snap : workers[w].snap[a] = workers[w].snap[b]

\* C4: once main has passed wg.Wait() every worker has finished, and no step
\* taken afterwards changes the Model, the Metrics or a worker.
JoinBarrier ==
    /\ [](PassedWait => AllDone)
    /\ [][PassedWait => UNCHANGED <<Weights, Bias, Updates, Metrics, workers>>]_vars

\* main reports after two workers have applied gradients
JoinBarrierWitness ==
    /\ pcMain = "evaluate"
    /\ numWorkers = 2
    /\ Updates >= 2
    /\ Len(report) = epochs

\* C5: for 1 <= numWorkers <= len(trainData) the partitions are contiguous
\* index ranges, one after the other from 0 to len(trainData), and every
\* index of the training set lies in exactly one of them.
PartitionComplete ==
    (Partitioned /\ numWorkers <= trainLen) =>
        /\ workersData[0][1] = 0
        /\ workersData[numWorkers - 1][2] = trainLen
        /\ \A i \in WorkerIds : workersData[i][1] <= workersData[i][2]
        /\ \A i \in WorkerIds : i + 1 < numWorkers => workersData[i][2] = workersData[i + 1][1]
        /\ \A x \in 0 .. (trainLen - 1) :
               Cardinality({i \in WorkerIds : workersData[i][1] <= x /\ x < workersData[i][2]}) = 1

PartitionCompleteWitness ==
    /\ Partitioned
    /\ trainLen = 7 /\ numWorkers = 3
    /\ workersData[2] = <<4, 7>>

\* C6, as claimed: for 1 <= numWorkers <= len(trainData) any two partitions
\* differ in size by at most 1.
NearEqualSizes ==
    (Partitioned /\ numWorkers <= trainLen) =>
        \A i, j \in WorkerIds : Abs(PartSize(i) - PartSize(j)) <= 1

\* C6, amended: any two partitions differ in size by at most
\* len(trainData) mod numWorkers.
SizesWithinRemainder ==
    (Partitioned /\ numWorkers <= trainLen) =>
        \A i, j \in WorkerIds : Abs(PartSize(i) - PartSize(j)) <= trainLen % numWorkers

\* 5 points over 3 workers: sizes 1, 1, 3
SizesWithinRemainderWitness ==
    /\ Partitioned
    /\ trainLen = 5 /\ numWorkers = 3
    /\ PartSize(0) = 1 /\ PartSize(2) = 3

\* C7: for 1 <= numWorkers <= len(trainData) each of the first numWorkers-1
\* partitions has floor(N/W) points and the last has floor(N/W) + (N mod W).
RemainderAbsorption ==
    (Partitioned /\ numWorkers <= trainLen) =>
        /\ \A i \in WorkerIds : i < numWorkers - 1 => PartSize(i) = trainLen \div numWorkers
        /\ PartSize(numWorkers - 1) = (trainLen \div numWorkers) + (trainLen % numWorkers)

\* 9 points over 4 workers: sizes 2, 2, 2, 3
RemainderAbsorptionWitness ==
    /\ Partitioned
    /\ trainLen = 9 /\ numWorkers = 4
    /\ PartSize(0) = 2 /\ PartSize(3) = 3

\* C8: when numWorkers exceeds len(trainData) no worker is started and the
\* Model and the Metrics stay as constructed.
ConfigValidation ==
    numWorkers > trainLen =>
        /\ \A w \in WorkerIds : workers[w].pc = "nil"
        /\ Updates = 0 /\ Bias = 0
        /\ \A j \in Features : Weights[j] = 0
        /\ DOMAIN Metrics = {}

\* C9: every worker that was started owns at least one data point, and every
\* average stored in Metrics is a mean over at least one batch error.
NoEmptyPartitionStarted ==
    /\ \A w \in WorkerIds : workers[w].pc # "nil" => SliceLen(workers[w].Data) >= 1
    /\ \A e \in DOMAIN Metrics : Metrics[e].n >= 1

\* C10: the epochs stored in Metrics are always 0 .. k-1 for some k, after
\* wg.Wait() they are 0 .. epochs-1, and every value main reports was stored.
MetricsKeysContiguous ==
    /\ \E k \in 0 .. epochs : DOMAIN Metrics = 0 .. (k - 1)
    /\ PassedWait => DOMAIN Metrics = 0 .. (epochs - 1)
    /\ \A x \in DOMAIN report : report[x].by \in WorkerIds

\* main has reported two epochs written by two workers, the last of which at
\* least was stored by worker 0 after worker 1 had stored it
MetricsKeysContiguousWitness ==
    /\ pcMain = "done"
    /\ numWorkers = 2 /\ epochs = 2
    /\ Len(report) = 2
    /\ report[2].by = 0

\* C11: the weight vector keeps the length it was constructed with, and a
\* step either leaves Updates alone or is the Updates++ of a gradient
\* application and raises it by exactly 1.
ModelStructure ==
    /\ [](DOMAIN Weights = Features /\ DOMAIN WeightsValue = Features)
    /\ [][\/ Updates' = Updates
          \/ /\ Updates' = Updates + 1
             /\ \E w \in WorkerIds :
                    workers[w].pc = "incUpdates" /\ workers'[w].pc = "unlock"]_vars

\* a worker has just counted the third gradient application
ModelStructureWitness ==
    /\ Updates = 3
    /\ \E w \in WorkerIds : workers[w].pc = "unlock"

\* C13: under fair scheduling every worker finishes and wg.Wait() returns; a
\* state without a successor is the end of main; and when both locks are
\* held they are held by two different workers.
Termination ==
    /\ <>(PassedWait /\ AllDone)
    /\ [](pcMain = "done" \/ ENABLED Next)
    /\ []((mu /\ MetricsMu) =>
            \E a, b \in WorkerIds : a # b /\ InModelSection(a) /\ InMetricsSection(b))

\* main is done after two workers ran two epochs over non-empty partitions
TerminationWitness ==
    /\ pcMain = "done"
    /\ numWorkers = 2 /\ epochs = 2 /\ trainLen = 2
    /\ AllDone

\* C16: at most one worker is inside the MetricsMu section, Metrics changes
\* only by the store of a worker inside it, and a worker at a Lock() whose
\* mutex is free can take it whatever the state of the other mutex.
MetricsExclusion ==
    /\ [](Cardinality({w \in WorkerIds : InMetricsSection(w)}) <= 1)
    /\ [][Metrics' # Metrics =>
            \E w \in WorkerIds :
                workers[w].pc = "metricsWrite" /\ workers'[w].pc = "metricsUnlock"]_vars
    /\ [](\A w \in WorkerIds :
            /\ (workers[w].pc = "lock" /\ ~mu) => ENABLED MuLock(w)
            /\ (workers[w].pc = "metricsLock" /\ ~MetricsMu) => ENABLED MetricsLock(w))

\* one worker is about to store its average while another one is in the
\* middle of a gradient application, and a third party could lock neither
MetricsExclusionWitness ==
    \E a, b \in WorkerIds :
        /\ a # b
        /\ workers[a].pc = "metricsWrite"
        /\ workers[b].pc = "writeBias"

\* C18: the batch a worker is processing is the index range [i, end) of its
\* partition with 1 <= end - i <= batchSize, of exactly batchSize points
\* unless it ends the partition; it is batch number i / batchSize of the
\* epoch and all earlier batches of the epoch have been applied; the first
\* batch of an epoch starts at 0, the next batch starts where the applied one
\* ended, and the batch loop is left only when the batch ended the partition.
BatchStructure ==
    /\ [](\A w \in WorkerIds : InBatch(w) =>
            LET r == workers[w]
                len == SliceLen(r.Data)
            IN /\ 0 <= r.i /\ r.i < r.end /\ r.end <= len
               /\ r.end - r.i <= batchSize
               /\ (r.end < len => r.end - r.i = batchSize)
               /\ r.i % batchSize = 0
               /\ r.GradientSum = r.epoch * Ceil(len, batchSize) + (r.i \div batchSize)
               /\ r.i <= r.dp /\ r.dp <= r.end
               /\ (r.pc \in {"readBias", "readWeight"} => r.dp < r.end)
               /\ (r.pc \notin {"readBias", "readWeight"} => r.dp = r.end))
    /\ [][\A w \in WorkerIds :
            /\ (workers[w].pc = "unlock" /\ workers'[w].pc # "unlock") =>
                  IF workers'[w].pc = "metricsLock"
                  THEN workers[w].end = SliceLen(workers[w].Data)
                  ELSE /\ workers'[w].pc = "readBias"
                       /\ workers'[w].i = workers[w].end
                       /\ workers'[w].epoch = workers[w].epoch
            /\ (workers[w].pc \in {"start", "metricsUnlock"} /\ workers'[w].pc = "readBias") =>
                  workers'[w].i = 0]_vars

\* a worker is at the short second batch of its second epoch
BatchStructureWitness ==
    \E w \in WorkerIds :
        /\ workers[w].pc = "lock"
        /\ workers[w].epoch = 1
        /\ workers[w].Data = <<0, 3>>
        /\ workers[w].i = 2 /\ workers[w].end = 3
        /\ batchSize = 2

\* C19: whenever no worker holds Model.mu, Updates equals the number of
\* gradient applications completed: every component of the Model has been
\* written exactly Updates times.
CounterAccuracy ==
    ~mu => /\ Bias = Updates
           /\ \A j \in Features : Weights[j] = Updates

\* the lock is free after three applications and a worker is about to take it
CounterAccuracyWitness ==
    /\ ~mu
    /\ Updates = 3
    /\ numWorkers = 2
    /\ \E w \in WorkerIds : workers[w].pc = "lock"

\* C14: after a run in which every worker has data, the value stored for an
\* epoch is aggregated over the batches of all workers in that epoch (it
\* averages as many batch errors as all workers processed batches).
AggregatedMetric ==
    (PassedWait /\ numWorkers <= trainLen) =>
        \A e \in DOMAIN Metrics : Metrics[e].n = SumBatches(numWorkers)

\* C15: a store replaces what is stored under its epoch and touches no other
\* epoch, and after the run the value of every epoch is the average of the
\* worker that was the last to take MetricsMu for that epoch.
LastWriterWins ==
    /\ [][\A w \in WorkerIds :
            (workers[w].pc = "metricsWrite" /\ workers'[w].pc = "metricsUnlock") =>
                /\ DOMAIN Metrics' = (DOMAIN Metrics) \cup {workers[w].epoch}
                /\ Metrics'[workers[w].epoch] = [by |-> w, n |-> workers[w].batchErrors,
                                                 value |-> workers[w].averageError]
                /\ \A e \in DOMAIN Metrics : e # workers[w].epoch => Metrics'[e] = Metrics[e]]_vars
    /\ [](PassedWait =>
            \A e \in 0 .. (epochs - 1) :
                /\ e \in DOMAIN Metrics /\ e \in DOMAIN lastRecord
                /\ Metrics[e].by = lastRecord[e]
                /\ Metrics[e].n = Ceil(PartSize(lastRecord[e]), batchSize))

\* the two epochs end with the values of two different workers
LastWriterWinsWitness ==
    /\ PassedWait
    /\ numWorkers = 2 /\ epochs = 2 /\ trainLen = 3 /\ batchSize = 1
    /\ Metrics[0].by = 1 /\ Metrics[0].n = 2
    /\ Metrics[1].by = 0 /\ Metrics[1].n = 1

\* C17: the stores of a worker are those of the epochs 0, 1, 2, ... in this
\* order, one per epoch, the store of epoch e made when the worker has applied
\* exactly the gradients of its epochs 0 .. e; after wg.Wait() every worker
\* has stored every epoch.
WriteSchedule ==
    /\ \A w \in WorkerIds :
          /\ Len(recorded[w]) <= epochs
          /\ \A k \in DOMAIN recorded[w] :
                recorded[w][k] = <<k - 1, k * Ceil(SliceLen(workers[w].Data), batchSize)>>
    /\ PassedWait => \A w \in WorkerIds : Len(recorded[w]) = epochs

\* two workers have stored two epochs each, worker 1 after 2 and 4 gradients
WriteScheduleWitness ==
    /\ PassedWait
    /\ numWorkers = 2
    /\ recorded[0] = <<<<0, 1>>, <<1, 2>>>>
    /\ recorded[1] = <<<<0, 2>>, <<1, 4>>>>


\* ---------------------------------------------------------------- C20
\* the step learningRate * g / float64(n) taken off a value v
Stepped(v, g, n) == RSub[v, RDivInt[RMul[learningRate, g], n]]

\* C20: when a worker has applied the gradient of a batch of n points (n the
\* number of points actually in the batch) and still holds mu, every weight j
\* is the weight it found less learningRate * weightGradients[j] / n, the bias
\* is the bias it found less learningRate * biasGradient / n, and the update
\* counter is one more than it found; no step of a worker inside the section
\* changes Metrics, a partition, the training set or the length of the
\* weight vector.
GradientEffect ==
    /\ [](\A w \in WorkerIds :
            workers[w].pc = "unlock" =>
                LET r == workers[w]
                    n == r.end - r.i
                IN /\ n >= 1 /\ n <= batchSize
                   /\ \A j \in Features :
                        WeightsValue[j] = Stepped(r.pre.w[j], r.weightGradients[j], n)
                   /\ BiasValue = Stepped(r.pre.b, r.biasGradient, n)
                   /\ Updates = r.pre.u + 1)
    /\ [][\A w \in WorkerIds :
            (InModelSection(w) /\ workers'[w] # workers[w]) =>
                /\ Metrics' = Metrics
                /\ workersData' = workersData
                /\ data' = data
                /\ workers'[w].Data = workers[w].Data
                /\ DOMAIN WeightsValue' = DOMAIN WeightsValue]_vars

\* a worker has applied the gradient of a batch shorter than the batch size,
\* and a weight and the bias have moved by a fraction
GradientEffectWitness ==
    \E w \in WorkerIds :
        /\ workers[w].pc = "unlock"
        /\ workers[w].end - workers[w].i < batchSize
        /\ workers[w].pre.u >= 1
        /\ \E j \in Features : WeightsValue[j] # workers[w].pre.w[j] /\ WeightsValue[j].d > 1
        /\ BiasValue # workers[w].pre.b

\* ---------------------------------------------------------------- C12
\* The single-threaded reference: the batches of the whole training set in
\* order, epoch after epoch, each batch's gradient taken at the model the
\* batch finds and applied before the next batch is read.
\* The definitions are functions, so that their arguments are values.
ModelValue == [w : [Features -> Float], b : Float, u : Nat]

\* bias + sum of the first j products weight * feature, for the point at k
RefSum[m \in ModelValue, k \in Nat, j \in Nat] ==
    IF j = 0 THEN m.b
    ELSE RAdd[RefSum[m, k, j - 1], RMul[m.w[j - 1], FromInt(data[k].Features[j - 1])]]

\* prediction less label, for the point at k
RefError[m \in ModelValue, k \in Nat] ==
    RSub[RefSum[m, k, FeatureCount], FromInt(data[k].Label)]

\* the model after the gradient of the points lo .. hi-1 was applied to m
RefApply[m \in ModelValue, lo \in Nat, hi \in Nat] ==
    LET n == hi - lo
        gw(j) == RSum[[k \in 1 .. n |->
                         RMul[RefError[m, lo + k - 1], FromInt(data[lo + k - 1].Features[j])]]]
        gb == RSum[[k \in 1 .. n |-> RefError[m, lo + k - 1]]]
    IN [w |-> [j \in Features |-> RSub[m.w[j], RDivInt[RMul[learningRate, gw(j)], n]]],
        b |-> RSub[m.b, RDivInt[RMul[learningRate, gb], n]],
        u |-> m.u + 1]

\* the mean squared error of m over the points lo .. hi-1
RefBatchError[m \in ModelValue, lo \in Nat, hi \in Nat] ==
    RDivInt[RSum[[k \in 1 .. (hi - lo) |->
                    RMul[RefError[m, lo + k - 1], RefError[m, lo + k - 1]]]], hi - lo]

\* the mean of a sequence of values; of none, 0.0/0.0
AverageOf[q \in Seq(Float)] == RDivInt[RSum[q], Len(q)]

\* one epoch from index i on; s = [m, errs]: the model and the batch errors so far
RefEpoch[s \in [m : ModelValue, errs : Seq(Float)], i \in Nat] ==
    IF i >= trainLen THEN s
    ELSE RefEpoch[[m |-> RefApply[s.m, i, Min(i + batchSize, trainLen)],
                   errs |-> Append(s.errs, RefBatchError[s.m, i, Min(i + batchSize, trainLen)])],
                  i + batchSize]

\* the state after an epoch that ended as ep: its average is stored
RefRecord[metrics \in Seq(Float), ep \in [m : ModelValue, errs : Seq(Float)]] ==
    [m |-> ep.m, metrics |-> Append(metrics, AverageOf[ep.errs])]

\* the epochs from e on; s = [m, metrics]: the model and the averages of the
\* epochs so far, in order
RefRun[s \in [m : ModelValue, metrics : Seq(Float)], e \in Nat] ==
    IF e >= epochs THEN s
    ELSE RefRun[RefRecord[s.metrics, RefEpoch[[m |-> s.m, errs |-> <<>>], 0]], e + 1]

Reference ==
    RefRun[[m |-> [w |-> [j \in Features |-> Zero], b |-> Zero, u |-> 0], metrics |-> <<>>], 0]

\* C12: with one worker, once wg.Wait() has returned the weights, the bias,
\* the update counter and the stored averages are those of the
\* single-threaded reference, a function of the training set, the epochs,
\* the batch size and the learning rate alone.
SingleWorkerDeterminism ==
    (numWorkers = 1 /\ PassedWait) =>
        \A ref \in {Reference} :
            /\ WeightsValue = ref.m.w
            /\ BiasValue = ref.m.b
            /\ Updates = ref.m.u
            /\ DOMAIN Metrics = 0 .. (Len(ref.metrics) - 1)
            /\ \A e \in DOMAIN Metrics : Metrics[e].value = ref.metrics[e + 1]

\* one worker has run two epochs of two batches each; weights, bias and the
\* averages are fractions
SingleWorkerDeterminismWitness ==
    /\ numWorkers = 1 /\ PassedWait
    /\ epochs = 2 /\ Updates = 4
    /\ \E j \in Features : WeightsValue[j].d > 1
    /\ BiasValue.d > 1
    /\ Metrics[0].value # Metrics[1].value
    /\ Metrics[1].value.n > 0


\* ---------------------------------------------------------------- C21
\* the stages 0 .. s-1, in order
StagesBefore(s) == [k \in 1 .. s |-> k - 1]

\* a stage has taken an input and not yet emitted its result
Processing(s) == stages[s].pc \in {"process", "send"}

\* the parts of the claim that order the stages
OrderedStages ==
    /\ \A s \in StageIds :
        /\ stages[s].pc = "process" => stages[s].data.by = StagesBefore(s)
        /\ stages[s].pc = "send" => stages[s].data.by = StagesBefore(s + 1)
        /\ s > 0 => stages[s].received <= stages[s - 1].emitted
        /\ stages[s].emitted <= stages[s].received
        /\ stages[s].received <= stages[s].emitted + 1
    /\ final # <<>> =>
        /\ final[1] = Item(wines, StagesBefore(NumStages))
        /\ \A s \in StageIds : stages[s].emitted >= 1

\* C21: the data set passes the stages in order (a stage processes what the
\* stages before it have processed, and receives only what the stage before
\* it has emitted), main receives the data set all stages have processed,
\* and a stage has emitted one output for every input it has received
\* whenever it is not between the two, and when the program has ended.
StageOrdering ==
    /\ OrderedStages
    /\ \A s \in StageIds :
        (~Processing(s) \/ ~Running) => stages[s].emitted = stages[s].received

\* no process function panics on the data set loaded
ProcessReturns ==
    \A s \in StageIds : ~ProcessPanics(s, Item(wines, StagesBefore(s)))

\* StageOrdering for the data sets on which every process function returns
StageOrderingWhenProcessReturns == ProcessReturns => StageOrdering

\* main has received what three stages processed and has returned
StageOrderingReached ==
    /\ program = "returned"
    /\ final = <<Item(wines, <<0, 1, 2>>)>>
    /\ \A s \in StageIds : stages[s].received = 1 /\ stages[s].emitted = 1

\* ---------------------------------------------------------------- C22
\* a goroutine waits at a channel operation
StageBlocked(s) == stages[s].pc \in {"range", "send"}
ConnectorBlocked(c) == connectors[c].pc \in {"range", "send"}

\* the parts of the claim that say what never happens
CloseOrder ==
    /\ [](\A s \in StageIds :
            closed[Output(s)] =>
                /\ closed[Input(s)]
                /\ stages[s].emitted = stages[s].received)
    /\ [](\A c \in ConnectorIds :
            closed[Input(c + 1)] =>
                /\ closed[Output(c)]
                /\ connectors[c].forwarded = stages[c].emitted)
    /\ [](program \notin {SendPanic, ClosePanic})
    /\ [](Running => ENABLED NextPipeline)

NeverBlockedForever ==
    /\ \A s \in StageIds : StageBlocked(s) ~> (~StageBlocked(s) \/ ~Running)
    /\ \A c \in ConnectorIds : ConnectorBlocked(c) ~> (~ConnectorBlocked(c) \/ ~Running)

\* C22: under fair scheduling main's receive from the last stage succeeds;
\* a stage closes its output only when its input is closed and everything
\* received is emitted, a connector closes the next input only when the
\* output before it is closed and everything emitted is forwarded; no
\* channel is closed twice or sent on after it is closed; the running
\* program always has a step, and no stage or connector waits at a channel
\* forever.
PipelineShutdown ==
    /\ <>(final # <<>>)
    /\ CloseOrder
    /\ NeverBlockedForever

\* PipelineShutdown for the data sets on which every process function returns
PipelineShutdownWhenProcessReturns ==
    \/ <>(final # <<>>) /\ CloseOrder /\ NeverBlockedForever
    \/ ~ProcessReturns

\* the close of the first input has reached the last output
PipelineShutdownReached ==
    /\ \A ch \in Channels : closed[ch]
    /\ \A s \in StageIds : stages[s].pc = "done"
    /\ \A c \in ConnectorIds : connectors[c].pc = "done"

====
